---- MODULE Spec2Model ----
(***************************************************************************)
(* State-machine model of two client components of the storefront:         *)
(*   - ImageManager / ImagePreview (src/components/admin/ImageManager.tsx) *)
(*   - ProductCard                 (src/components/ProductCard.tsx)        *)
(* Sequences are 1-based here; the source's array index i is i+1 below.    *)
(***************************************************************************)
EXTENDS Integers, Sequences, FiniteSets, TLC

(***************************************************************************)
(* Bounds of the model.                                                    *)
(***************************************************************************)
MaxLen == 2

MaxCalls == 3

MaxVariants == 2

(***************************************************************************)
(* Image references.  A reference is a string; the code only looks at      *)
(* three of its properties: whether it contains ".s3.", whether it         *)
(* contains "amazonaws.com" and whether it starts with "/uploads/".        *)
(***************************************************************************)
RefS3A == "https://b.s3.amazonaws.com/a.jpg"

RefS3B == "https://b.s3.amazonaws.com/b.jpg"

RefUp == "/uploads/u.jpg"

RefExt == "https://cdn.example/e.jpg"

InitialRefs == {RefS3A, RefUp, RefExt}

\* String.prototype.includes on the references of the model.
includes(s, frag) ==
    CASE frag = ".s3." -> s \in {RefS3A, RefS3B}
      [] frag = "amazonaws.com" -> s \in {RefS3A, RefS3B}
      [] OTHER -> FALSE

\* String.prototype.startsWith on the references of the model.
startsWith(s, prefix) ==
    CASE prefix = "/uploads/" -> s \in {RefUp}
      [] OTHER -> FALSE

VARIABLES
    images,             \* ImageManager prop: the caller's list of references
    previews,           \* one ImagePreview instance per rendered slot
    orphans,            \* signing requests whose ImagePreview was unmounted
    dels,               \* removeAt calls suspended at their await (in issue order)
    ups,                \* onFiles calls suspended at their await (in issue order)
    uploading,          \* ImageManager state
    toasts,             \* notification sink: key -> latest notification
    nCalls,             \* number of removeAt and onFiles calls so far
    lastEvent,          \* what the last step did (history)
    variants,           \* ProductCard prop: product.variants || []
    selectedVariantId   \* ProductCard state

managerVars == <<images, previews, orphans, dels, ups, uploading, toasts, nCalls, lastEvent>>

cardVars == <<variants, selectedVariantId>>

vars == <<images, previews, orphans, dels, ups, uploading, toasts, nCalls, lastEvent,
          variants, selectedVariantId>>

(***************************************************************************)
(* Helpers on sequences.                                                   *)
(***************************************************************************)
Range(s) == {s[i] : i \in 1..Len(s)}

\* s without its element at position k
WithoutAt(s, k) == [j \in 1..(Len(s) - 1) |-> IF j < k THEN s[j] ELSE s[j + 1]]

SeqsUpTo(S, n) == UNION {[1..k -> S] : k \in 0..n}

(***************************************************************************)
(* ImagePreview                                                            *)
(***************************************************************************)
\* Variant of isS3Url: the managed-reference test of removeAt used in its place.
isS3UrlOrUpload(src) ==
    includes(src, ".s3.") \/ includes(src, "amazonaws.com") \/ startsWith(src, "/uploads/")

\* const isS3Url = src.includes('.s3.') || src.includes('amazonaws.com')
isS3Url(src) == includes(src, ".s3.") \/ includes(src, "amazonaws.com")

\* The url the sign collaborator hands out for a reference.
Signed(src) == "signed:" \o src

\* What fetch('/api/admin/sign-url') can come back with: a rejected fetch, a
\* body that response.json() cannot parse, or a parsed body {signedUrl?, error?}
\* (an absent field is the empty string, which is falsy like undefined).
SignResponses(src) ==
    { [rejects |-> TRUE,  parses |-> FALSE, signedUrl |-> "", error |-> ""],
      [rejects |-> FALSE, parses |-> FALSE, signedUrl |-> "", error |-> ""],
      [rejects |-> FALSE, parses |-> TRUE,  signedUrl |-> Signed(src), error |-> ""],
      [rejects |-> FALSE, parses |-> TRUE,  signedUrl |-> "", error |-> "denied"] }

\* The useEffect body: for an S3 reference set loading, clear error and issue
\* the signing request (reqs lists the references of the outstanding requests;
\* setFor is history: the reference whose response last set the state, "" if
\* none; issued is history: how many requests the instance has issued).
Effect(p) ==
    IF isS3Url(p.src)
    THEN [p EXCEPT !.loading = TRUE, !.error = FALSE, !.reqs = Append(@, p.src),
                   !.issued = @ + 1]
    ELSE p

\* A new instance: the three useState initial values, then the effect.
Mount(src) ==
    Effect([src |-> src, signedUrl |-> src, loading |-> FALSE, error |-> FALSE,
            reqs |-> <<>>, setFor |-> "", issued |-> 0])

\* Variant of Rerender: the effect without its dependency list, run on every render.
RerenderEveryTime(p, src) == Effect([p EXCEPT !.src = src])

\* A mounted instance rendered again: state is kept, the effect runs again only
\* when a dependency ([src, isS3Url]) changed.
Rerender(p, src) ==
    IF src = p.src THEN p ELSE Effect([p EXCEPT !.src = src])

\* Variant of ApplySignResponse: the catch handler without setLoading(false).
ApplySignResponseCatchKeepsLoading(p, resp) ==
    IF ~resp.rejects /\ resp.parses /\ resp.signedUrl # ""
    THEN [p EXCEPT !.signedUrl = resp.signedUrl, !.loading = FALSE]
    ELSE [p EXCEPT !.error = TRUE]

\* The .then/.then/.catch chain applied to an instance's state.
ApplySignResponse(p, resp) ==
    IF ~resp.rejects /\ resp.parses /\ resp.signedUrl # ""
    THEN [p EXCEPT !.signedUrl = resp.signedUrl, !.loading = FALSE]
    ELSE [p EXCEPT !.error = TRUE, !.loading = FALSE]

\* What the instance shows.
RenderState(p) ==
    IF p.loading THEN [kind |-> "Loading", url |-> ""]
    ELSE IF p.error THEN [kind |-> "Failed", url |-> ""]
    ELSE IF isS3Url(p.src) THEN [kind |-> "img", url |-> p.signedUrl]
    ELSE [kind |-> "Image", url |-> p.src]

(***************************************************************************)
(* ImageManager: rendering of the list                                     *)
(***************************************************************************)
\* Variant of KeyOf: key={i}, the position alone.
KeyOfIndexOnly(src, i) == <<"", i>>

\* key={`${src}-${i}`}: the key by which React tells the list's children apart
\* across renders.
KeyOf(src, i) == <<src, i>>

\* Slot i keeps its ImagePreview instance across a render iff its key is unchanged.
Kept(old, newImages, i) ==
    /\ i <= Len(old)
    /\ i <= Len(newImages)
    /\ KeyOf(newImages[i], i) = KeyOf(old[i].src, i)

\* images.map(...): the instances after rendering newImages over the instances old.
Render(old, newImages) ==
    [i \in 1..Len(newImages) |->
        IF Kept(old, newImages, i) THEN Rerender(old[i], newImages[i])
        ELSE Mount(newImages[i])]

\* The outstanding signing requests of the instances a render unmounts.
Unmounted(old, newImages) ==
    UNION { {[slot |-> i, src |-> old[i].reqs[k], settled |-> FALSE] : k \in 1..Len(old[i].reqs)} :
            i \in {j \in 1..Len(old) : ~Kept(old, newImages, j)} }

\* The caller's onChange: it replaces its list by the one handed to it and
\* passes that list back as the images prop.
onChange(current, next) == next

\* onChange(next) and the render that follows it.
Deliver(next) ==
    /\ images' = onChange(images, next)
    /\ previews' = Render(previews, images')
    /\ orphans' = orphans \cup Unmounted(previews, images')

(***************************************************************************)
(* ImageManager: removeAt                                                  *)
(***************************************************************************)
\* Variant of Managed: if (imageUrl), the test of the url's shape left out.
ManagedAlways(imageUrl) == imageUrl # ""

\* Variant of Managed: the '/uploads/' test left out.
ManagedS3Only(imageUrl) ==
    /\ imageUrl # ""
    /\ (includes(imageUrl, ".s3.") \/ includes(imageUrl, "amazonaws.com"))

\* imageUrl && (includes('.s3.') || includes('amazonaws.com') || startsWith('/uploads/'))
Managed(imageUrl) ==
    /\ imageUrl # ""
    /\ \/ includes(imageUrl, ".s3.")
       \/ includes(imageUrl, "amazonaws.com")
       \/ startsWith(imageUrl, "/uploads/")

\* What fetch('/api/admin/uploads/delete') can come back with: a rejected fetch,
\* or a status with a body that response.json() cannot parse or that parses to
\* {message} (error = "") or to {error}.
DeleteStatuses == {200, 404}

DeleteResponses ==
    { [rejects |-> TRUE, status |-> 0, parses |-> FALSE, error |-> ""] }
    \cup { [rejects |-> FALSE, status |-> s, parses |-> FALSE, error |-> ""] :
            s \in DeleteStatuses }
    \cup { [rejects |-> FALSE, status |-> s, parses |-> TRUE, error |-> e] :
            s \in DeleteStatuses, e \in {"", "not found"} }

\* response.ok
ResponseOk(resp) == resp.status \in 200..299

\* Variant of DeletionOutcome: failure read off the body's error field instead
\* of response.ok.
DeletionOutcomeByBody(resp) ==
    IF resp.rejects \/ ~resp.parses THEN "TransportFailed"
    ELSE IF resp.error # "" THEN "Rejected"
    ELSE "Deleted"

\* The path removeAt takes through its try/catch for a response.
DeletionOutcome(resp) ==
    IF resp.rejects \/ ~resp.parses THEN "TransportFailed"
    ELSE IF ~ResponseOk(resp) THEN "Rejected"
    ELSE "Deleted"

\* Variant of ProceedsToRemoval: the catch block's return left out.
ProceedsUnlessRejected(outcome) == outcome # "Rejected"

\* Variant of ProceedsToRemoval: a return on every path, the removal never reached.
ProceedsNever(outcome) == FALSE

\* The two return statements: only the success path reaches the removal.
ProceedsToRemoval(outcome) == outcome = "Deleted"

\* Variant of FilterOutIndex: images.filter((u) => u !== images[idx])
FilterOutValue(imgs, idx) ==
    IF idx \in 1..Len(imgs) THEN SelectSeq(imgs, LAMBDA x : x # imgs[idx]) ELSE imgs

\* images.filter((_, i) => i !== idx)
FilterOutIndex(imgs, idx) ==
    IF idx \in 1..Len(imgs) THEN WithoutAt(imgs, idx) ELSE imgs

\* toast.loading / toast.success / toast.error with { id: `delete-${idx}` }
Toast(ts, idx, kind, message) ==
    [k \in (DOMAIN ts) \cup {idx} |->
        IF k = idx THEN [kind |-> kind, message |-> message] ELSE ts[k]]

\* Variant of SettleToast: toast.success / toast.error without { id }, so the
\* notification gets a key of its own (0) instead of the one of toast.loading.
SettleToastWithoutId(ts, idx, outcome, resp) ==
    IF outcome = "Deleted"
    THEN Toast(ts, 0, "success", "Image deleted successfully")
    ELSE Toast(ts, 0, "error", "Error deleting image. Please try again.")

\* The terminal notification of a deletion.
SettleToast(ts, idx, outcome, resp) ==
    CASE outcome = "Deleted" ->
            Toast(ts, idx, "success", "Image deleted successfully")
      [] outcome = "Rejected" ->
            Toast(ts, idx, "error", "Failed to delete image: "
                    \o (IF resp.error # "" THEN resp.error ELSE "Unknown error"))
      [] OTHER ->
            Toast(ts, idx, "error", "Error deleting image. Please try again.")

\* removeAt(idx) up to its first await (or to its end, for an unmanaged reference).
RemoveAt(idx) ==
    /\ nCalls < MaxCalls
    /\ idx \in 1..Len(images)
    /\ nCalls' = nCalls + 1
    /\ LET imageUrl == images[idx] IN
       IF Managed(imageUrl)
       THEN /\ toasts' = Toast(toasts, idx, "loading", "Deleting image...")
            /\ dels' = Append(dels, [idx |-> idx, images |-> images])
            /\ lastEvent' = [op |-> "removeAt", idx |-> idx, url |-> imageUrl,
                             requested |-> TRUE, called |-> FALSE, handed |-> <<>>,
                             before |-> images]
            /\ UNCHANGED <<images, previews, orphans>>
       ELSE /\ Deliver(FilterOutIndex(images, idx))
            /\ lastEvent' = [op |-> "removeAt", idx |-> idx, url |-> imageUrl,
                             requested |-> FALSE, called |-> TRUE,
                             handed |-> FilterOutIndex(images, idx),
                             before |-> images]
            /\ UNCHANGED <<toasts, dels>>
    /\ UNCHANGED <<ups, uploading>>
    /\ UNCHANGED cardVars

\* removeAt resumed by the answer to its deletion request.
DeleteSettle(k, resp) ==
    /\ k \in 1..Len(dels)
    /\ LET d == dels[k]
           outcome == DeletionOutcome(resp)
           next == FilterOutIndex(d.images, d.idx) IN
       /\ dels' = WithoutAt(dels, k)
       /\ toasts' = SettleToast(toasts, d.idx, outcome, resp)
       /\ IF ProceedsToRemoval(outcome)
          THEN Deliver(next)
          ELSE UNCHANGED <<images, previews, orphans>>
       /\ lastEvent' = [op |-> "deleteSettle", idx |-> d.idx, url |-> d.images[d.idx],
                        snapshot |-> d.images, resp |-> resp, outcome |-> outcome,
                        called |-> ProceedsToRemoval(outcome),
                        handed |-> IF ProceedsToRemoval(outcome) THEN next ELSE <<>>,
                        before |-> images]
    /\ UNCHANGED <<ups, uploading, nCalls>>
    /\ UNCHANGED cardVars

(***************************************************************************)
(* ImageManager: onFiles                                                   *)
(***************************************************************************)
\* The FileList handed to onFiles: null, or a list of so many files.
FileInputs == {"null", "0 files", "1 file"}

\* What fetch("/api/admin/uploads") can come back with: a rejected fetch, or a
\* status with a body that res.json() cannot parse or that parses to {urls?}
\* (an absent urls is read as [] by `data.urls || []`).
UploadResponses ==
    { [rejects |-> TRUE,  status |-> 0,   parses |-> FALSE, urls |-> <<>>],
      [rejects |-> FALSE, status |-> 500, parses |-> TRUE,  urls |-> <<>>],
      [rejects |-> FALSE, status |-> 200, parses |-> FALSE, urls |-> <<>>],
      [rejects |-> FALSE, status |-> 200, parses |-> TRUE,  urls |-> <<>>],
      [rejects |-> FALSE, status |-> 200, parses |-> TRUE,  urls |-> <<RefS3B>>] }

\* Variant of UploadStored: the res.ok test left out.
UploadStoredWhateverStatus(resp) == ~resp.rejects /\ resp.parses

\* onFiles reaches onChange: fetch resolved, res.ok, and res.json() parsed.
UploadStored(resp) == ~resp.rejects /\ ResponseOk(resp) /\ resp.parses

\* [...images, ...urls]
Spread(imgs, urls) == imgs \o urls

\* !files || files.length === 0
NoFiles(files) == files = "null" \/ files = "0 files"

\* onFiles(files) up to its await (or to its early return, which changes nothing).
OnFiles(files) ==
    /\ files \in FileInputs
    /\ IF NoFiles(files)
       THEN UNCHANGED <<ups, uploading, nCalls, lastEvent>>
       ELSE /\ nCalls < MaxCalls
            /\ nCalls' = nCalls + 1
            /\ uploading' = TRUE
            /\ ups' = Append(ups, [images |-> images])
            /\ lastEvent' = [op |-> "onFiles", files |-> files, requested |-> TRUE]
    /\ UNCHANGED <<images, previews, orphans, dels, toasts>>
    /\ UNCHANGED cardVars

\* onFiles resumed by the answer to its upload request; finally: setUploading(false).
UploadSettle(k, resp) ==
    /\ k \in 1..Len(ups)
    /\ LET u == ups[k]
           next == Spread(u.images, resp.urls) IN
       /\ ups' = WithoutAt(ups, k)
       /\ uploading' = FALSE
       /\ IF UploadStored(resp)
          THEN Deliver(next)
          ELSE UNCHANGED <<images, previews, orphans>>
       /\ lastEvent' = [op |-> "uploadSettle", snapshot |-> u.images, resp |-> resp,
                        called |-> UploadStored(resp),
                        handed |-> IF UploadStored(resp) THEN next ELSE <<>>,
                        before |-> images]
    /\ UNCHANGED <<dels, toasts, nCalls>>
    /\ UNCHANGED cardVars

(***************************************************************************)
(* ImagePreview: steps of a mounted instance                               *)
(***************************************************************************)
\* The answer to the k-th outstanding signing request of the instance in slot i.
SignSettle(i, k, resp) ==
    /\ i \in 1..Len(previews)
    /\ k \in 1..Len(previews[i].reqs)
    /\ resp \in SignResponses(previews[i].reqs[k])
    /\ previews' = [previews EXCEPT
                      ![i] = [ApplySignResponse(@, resp) EXCEPT
                                !.reqs = WithoutAt(previews[i].reqs, k),
                                !.setFor = previews[i].reqs[k]]]
    /\ UNCHANGED <<images, orphans, dels, ups, uploading, toasts, nCalls, lastEvent>>
    /\ UNCHANGED cardVars

\* The answer to a signing request of an unmounted instance: its setState calls
\* reach no mounted component.
SignSettleUnmounted(o) ==
    /\ o \in orphans
    /\ ~o.settled
    /\ orphans' = (orphans \ {o}) \cup {[o EXCEPT !.settled = TRUE]}
    /\ UNCHANGED <<images, previews, dels, ups, uploading, toasts, nCalls, lastEvent>>
    /\ UNCHANGED cardVars

\* <img onError>: the browser fails to load the signed url of slot i.
ImgError(i) ==
    /\ i \in 1..Len(previews)
    /\ RenderState(previews[i]).kind = "img"
    /\ previews' = [previews EXCEPT ![i].error = TRUE]
    /\ UNCHANGED <<images, orphans, dels, ups, uploading, toasts, nCalls, lastEvent>>
    /\ UNCHANGED cardVars

(***************************************************************************)
(* ProductCard                                                             *)
(***************************************************************************)
Null == "null"

NoVariant == [id |-> Null, price |-> -1]

VariantIds == {"v1", "v2", ""}

VariantPrices == {30000, 70000}

VariantRecords == [id : VariantIds, price : VariantPrices]

\* const variants = product.variants || []
VariantLists == SeqsUpTo(VariantRecords, MaxVariants)

\* useState(variants[0]?.id || null)
InitialSelectedVariantId(vs) ==
    IF Len(vs) > 0 /\ vs[1].id # "" THEN vs[1].id ELSE Null

hasVariants == Len(variants) > 0

\* variants.find(v => v.id === id): the first match, or NoVariant for undefined
Find(vs, id) ==
    IF \E i \in 1..Len(vs) : vs[i].id = id
    THEN vs[CHOOSE i \in 1..Len(vs) :
                /\ vs[i].id = id
                /\ \A j \in 1..(i - 1) : vs[j].id # id]
    ELSE NoVariant

\* Variant of SelectedVariant: the `|| variants[0]` fallback left out.
SelectedVariantOrNull(vs, id) ==
    IF ~(Len(vs) > 0) THEN NoVariant ELSE Find(vs, id)

\* Variant of SelectedVariant: always the first variant, the selected id ignored.
SelectedVariantFirst(vs, id) ==
    IF ~(Len(vs) > 0) THEN NoVariant ELSE vs[1]

\* useMemo: !hasVariants ? null : variants.find(...) || variants[0]
SelectedVariant(vs, id) ==
    IF ~(Len(vs) > 0) THEN NoVariant
    ELSE IF Find(vs, id) # NoVariant THEN Find(vs, id) ELSE vs[1]

selectedVariant == SelectedVariant(variants, selectedVariantId)

Min(S) == CHOOSE x \in S : \A y \in S : x <= y

Max(S) == CHOOSE x \in S : \A y \in S : x >= y

Prices(vs) == {vs[i].price : i \in 1..Len(vs)}

minPrice == IF hasVariants THEN Min(Prices(variants)) ELSE 0

maxPrice == IF hasVariants THEN Max(Prices(variants)) ELSE 0

\* Intl.NumberFormat("en-IN", {style: "currency", currency: "INR"}).format(price / 100):
\* the rupees and the two-digit paise of an amount of paise.
formatPrice(price) == [rupees |-> price \div 100, paise |-> price % 100]

\* The content of the price element.
PriceDisplay ==
    IF ~hasVariants THEN [kind |-> "not available"]
    ELSE IF selectedVariant # NoVariant
         THEN [kind |-> "single", price |-> formatPrice(selectedVariant.price)]
    ELSE IF minPrice = maxPrice
         THEN [kind |-> "single", price |-> formatPrice(minPrice)]
    ELSE [kind |-> "range", low |-> formatPrice(minPrice), high |-> formatPrice(maxPrice)]

\* A click on the k-th variant button (rendered when there is more than one variant).
SelectVariant(k) ==
    /\ hasVariants /\ Len(variants) > 1
    /\ k \in 1..Len(variants)
    /\ selectedVariantId' = variants[k].id
    /\ UNCHANGED variants
    /\ UNCHANGED managerVars

\* The parent renders the card with another product.variants.
ReplaceVariants(vs) ==
    /\ vs \in VariantLists
    /\ vs # variants
    /\ variants' = vs
    /\ UNCHANGED selectedVariantId
    /\ UNCHANGED managerVars

(***************************************************************************)
(* Specifications                                                          *)
(***************************************************************************)
\* ImageManager mounted with a list of references; no ProductCard.
ManagerInit ==
    /\ images \in SeqsUpTo(InitialRefs, MaxLen)
    /\ previews = Render(<<>>, images)
    /\ orphans = {}
    /\ dels = <<>>
    /\ ups = <<>>
    /\ uploading = FALSE
    /\ toasts = <<>>
    /\ nCalls = 0
    /\ lastEvent = [op |-> "mount"]

CardAbsent ==
    /\ variants = <<>>
    /\ selectedVariantId = Null

Init == ManagerInit /\ CardAbsent

Next ==
    \/ \E idx \in 1..Len(images) : RemoveAt(idx)
    \/ \E k \in 1..Len(dels), resp \in DeleteResponses : DeleteSettle(k, resp)
    \/ \E files \in FileInputs : OnFiles(files)
    \/ \E k \in 1..Len(ups), resp \in UploadResponses : UploadSettle(k, resp)
    \/ \E i \in 1..Len(previews) : \E k \in 1..Len(previews[i].reqs) :
          \E resp \in SignResponses(previews[i].reqs[k]) : SignSettle(i, k, resp)
    \/ \E o \in orphans : SignSettleUnmounted(o)
    \/ \E i \in 1..Len(previews) : ImgError(i)

Spec == Init /\ [][Next]_vars

\* The delete collaborator answers one of the requests in flight.
DeleteAnswered ==
    \E k \in 1..Len(dels), resp \in DeleteResponses : DeleteSettle(k, resp)

\* The ImageManager with a delete collaborator that answers (or fails) every
\* request in the end; nothing is assumed of the other collaborators.
SpecLive == Spec /\ WF_vars(DeleteAnswered)

\* ProductCard mounted with a product; no ImageManager.
CardInit ==
    /\ variants \in VariantLists
    /\ selectedVariantId = InitialSelectedVariantId(variants)

ManagerAbsent ==
    /\ images = <<>>
    /\ previews = <<>>
    /\ orphans = {}
    /\ dels = <<>>
    /\ ups = <<>>
    /\ uploading = FALSE
    /\ toasts = <<>>
    /\ nCalls = 0
    /\ lastEvent = [op |-> "mount"]

InitCard == CardInit /\ ManagerAbsent

NextCard ==
    \/ \E k \in 1..Len(variants) : SelectVariant(k)
    \/ \E vs \in VariantLists : ReplaceVariants(vs)

SpecCard == InitCard /\ [][NextCard]_vars

(***************************************************************************)
(* Properties.  lastEvent describes the last removeAt / onFiles step: the  *)
(* response it was resumed with, whether it called onChange (called), the  *)
(* list it handed over (handed) and the caller's list before the step      *)
(* (before).  Steps of ImagePreview leave lastEvent and images alone.      *)
(***************************************************************************)
\* The references the storage owns, by the shape the specification gives them.
ManagedRefs == {RefS3A, RefS3B, RefUp}

\* The references that are neither '.s3.' nor 'amazonaws.com' urls.
DirectRefs == {r \in {RefS3A, RefS3B, RefUp, RefExt} :
                 ~includes(r, ".s3.") /\ ~includes(r, "amazonaws.com")}

DeletionSettled == lastEvent.op = "deleteSettle"

Answered2xx(resp) == ~resp.rejects /\ resp.status >= 200 /\ resp.status <= 299

AnsweredNon2xx(resp) == ~resp.rejects /\ ~(resp.status >= 200 /\ resp.status <= 299)

CarriesError(resp) == ~resp.rejects /\ resp.parses /\ resp.error # ""

NoDuplicates(s) == \A i, j \in 1..Len(s) : s[i] = s[j] => i = j

\* C1 as stated: a deletion of a managed reference answered with a non-2xx
\* status or with a body carrying {error} never calls onChange and leaves the
\* caller's list unchanged.
C1_NonOkOrErrorBodyKeepsList ==
    (/\ DeletionSettled
     /\ lastEvent.url \in ManagedRefs
     /\ (AnsweredNon2xx(lastEvent.resp) \/ CarriesError(lastEvent.resp)))
    => (~lastEvent.called /\ images = lastEvent.before)

\* C1 amended: a deletion of a managed reference answered with a non-2xx status
\* (whatever its body) never calls onChange and leaves the caller's list
\* unchanged.
C1_NonOkKeepsList ==
    (/\ DeletionSettled
     /\ lastEvent.url \in ManagedRefs
     /\ AnsweredNon2xx(lastEvent.resp))
    => (~lastEvent.called /\ lastEvent.handed = <<>> /\ images = lastEvent.before)

C1_Witness ==
    /\ DeletionSettled
    /\ lastEvent.url \in ManagedRefs
    /\ lastEvent.resp.status = 404
    /\ lastEvent.resp.parses
    /\ lastEvent.resp.error = "not found"
    /\ lastEvent.outcome = "Rejected"
    /\ ~lastEvent.called
    /\ images = lastEvent.before
    /\ lastEvent.url \in Range(images)

\* C2: a deletion of a managed reference whose request fails at transport level
\* (fetch rejects, or the body cannot be parsed, whatever the status) ends as
\* TransportFailed: an error notification is emitted under the deletion's key,
\* onChange is not called and the caller's list is unchanged.
C2_TransportFailureKeepsList ==
    (/\ DeletionSettled
     /\ lastEvent.url \in ManagedRefs
     /\ (lastEvent.resp.rejects \/ ~lastEvent.resp.parses))
    => (/\ lastEvent.outcome = "TransportFailed"
        /\ ~lastEvent.called
        /\ lastEvent.handed = <<>>
        /\ images = lastEvent.before
        /\ lastEvent.idx \in DOMAIN toasts
        /\ toasts[lastEvent.idx].kind = "error")

C2_Witness ==
    /\ DeletionSettled
    /\ ~lastEvent.resp.rejects
    /\ ~lastEvent.resp.parses
    /\ lastEvent.resp.status = 200
    /\ ~lastEvent.called
    /\ images = lastEvent.before
    /\ toasts[lastEvent.idx].kind = "error"

\* C3: when the delete collaborator answers removeAt(idx) with 2xx (and a body
\* that parses), onChange is handed the list removeAt started from with exactly
\* the entry at position idx removed: one element fewer, the others in order,
\* also when the same reference occurs more than once.
C3_SuccessRemovesExactlyTheIndex ==
    (/\ DeletionSettled
     /\ Answered2xx(lastEvent.resp)
     /\ lastEvent.resp.parses)
    => (/\ lastEvent.called
        /\ Len(lastEvent.handed) = Len(lastEvent.snapshot) - 1
        /\ \A j \in 1..Len(lastEvent.handed) :
              lastEvent.handed[j] =
                 IF j < lastEvent.idx THEN lastEvent.snapshot[j]
                 ELSE lastEvent.snapshot[j + 1]
        /\ images = lastEvent.handed)

C3_Witness ==
    /\ DeletionSettled
    /\ lastEvent.called
    /\ Len(lastEvent.snapshot) = 2
    /\ lastEvent.snapshot[1] = lastEvent.snapshot[2]
    /\ images = <<lastEvent.url>>

\* C4: when the caller's list was replaced, between the issue and the successful
\* completion of a deletion, by another deletion started from the same render
\* (both of managed references, no reference occurring twice), the removal is applied to the caller's current list by reference value: the
\* resulting list is the current list without the deleted reference, so it
\* contains neither deleted reference and every other entry.
C4_RemovalAppliedToCurrentList ==
    (/\ DeletionSettled
     /\ lastEvent.called
     /\ NoDuplicates(lastEvent.snapshot)
     /\ Range(lastEvent.snapshot) \subseteq ManagedRefs
     /\ \E j \in 1..Len(lastEvent.snapshot) :
           /\ j # lastEvent.idx
           /\ lastEvent.before = WithoutAt(lastEvent.snapshot, j))
    => images = SelectSeq(lastEvent.before, LAMBDA r : r # lastEvent.url)

\* C5: removeAt changes the list of a managed reference only after, and only on,
\* a 2xx answer to its deletion request: the call that issues the request calls
\* no onChange, and a resumed deletion calls onChange only when its request was
\* answered (not rejected) with a 2xx status and a body that parsed.
C5_RemovalOnlyAfterSuccess ==
    /\ (lastEvent.op = "removeAt" /\ lastEvent.url \in ManagedRefs)
          => (/\ lastEvent.requested
              /\ ~lastEvent.called
              /\ images = lastEvent.before)
    /\ (DeletionSettled /\ lastEvent.called)
          => (/\ lastEvent.url \in ManagedRefs
              /\ Answered2xx(lastEvent.resp)
              /\ lastEvent.outcome = "Deleted")
    /\ (DeletionSettled /\ ~lastEvent.called) => images = lastEvent.before
    /\ \A k \in 1..Len(dels) : dels[k].images[dels[k].idx] \in ManagedRefs

C5_Witness ==
    /\ DeletionSettled
    /\ lastEvent.called
    /\ lastEvent.url = RefUp
    /\ Answered2xx(lastEvent.resp)
    /\ RefUp \notin Range(images)

\* C6: a successful upload hands onChange the caller's current list, unchanged
\* and in order, followed by the returned urls, so that no entry added meanwhile
\* is dropped and no reference removed meanwhile comes back.
C6_UploadAppendsToCurrentList ==
    (lastEvent.op = "uploadSettle" /\ lastEvent.called)
    => lastEvent.handed = lastEvent.before \o lastEvent.resp.urls

\* C7: a slot whose reference has neither '.s3.' nor 'amazonaws.com' in it never
\* has a signing request issued for it and always shows the reference itself
\* (never Loading, never Failed), also when the slot held a remote reference
\* before that was loading or had failed.
C7_DirectReferenceRendersItself ==
    /\ \A i \in 1..Len(previews) :
          previews[i].src \in DirectRefs
             => (/\ previews[i].reqs = <<>>
                 /\ previews[i].setFor = ""
                 /\ RenderState(previews[i]) = [kind |-> "Image", url |-> images[i]])
    /\ \A o \in orphans : o.src \notin DirectRefs

C7_Witness ==
    \E i \in 1..Len(previews) :
        /\ previews[i].src \in DirectRefs
        /\ RenderState(previews[i]).kind = "Image"
        /\ \E o \in orphans : o.slot = i /\ ~o.settled

\* C8: the state of a slot's ImagePreview (signedUrl, loading, error) is only
\* ever set by the response to the request issued for the slot's current
\* reference: the requests an instance waits for are for its current reference,
\* and the response to a request issued for a reference the slot no longer holds
\* reaches no instance.
C8_StaleSignResponseNeverApplied ==
    \A i \in 1..Len(previews) :
        /\ previews[i].src = images[i]
        /\ previews[i].setFor \in {"", previews[i].src}
        /\ \A k \in 1..Len(previews[i].reqs) : previews[i].reqs[k] = previews[i].src

C8_Witness ==
    \E o \in orphans :
        /\ o.settled
        /\ o.slot <= Len(images)
        /\ images[o.slot] # o.src
        /\ previews[o.slot].setFor = ""
        /\ previews[o.slot].signedUrl = images[o.slot]

PricesDiffer == Cardinality(Prices(variants)) > 1

\* C9 as stated: with a non-empty variant list and a null selected id the card
\* shows one price when all variants share it and otherwise the range from the
\* lowest to the highest price.
C9_NoSelectionShowsRange ==
    (hasVariants /\ selectedVariantId = Null)
    => PriceDisplay =
          IF PricesDiffer
          THEN [kind |-> "range", low |-> formatPrice(Min(Prices(variants))),
                high |-> formatPrice(Max(Prices(variants)))]
          ELSE [kind |-> "single", price |-> formatPrice(Min(Prices(variants)))]

\* C9 amended: with a non-empty variant list and a null selected id the card
\* shows the single price of the first variant, whether or not the prices
\* differ; it never shows a range.
C9_NoSelectionShowsFirstPrice ==
    /\ (hasVariants /\ selectedVariantId = Null)
          => PriceDisplay = [kind |-> "single", price |-> formatPrice(variants[1].price)]
    /\ PriceDisplay.kind # "range"

C9_Witness ==
    /\ hasVariants
    /\ selectedVariantId = Null
    /\ PricesDiffer
    /\ variants[1].price = 30000
    /\ PriceDisplay = [kind |-> "single", price |-> [rupees |-> 300, paise |-> 0]]

\* C10: the resolved selected variant is a member of the variant list whenever
\* the list is non-empty (the first variant whose id is the selected id, else the
\* first variant), it is null exactly when the list is empty, and the price shown
\* for a non-empty list is that variant's own price.
C10_SelectedVariantIsMember ==
    /\ hasVariants <=> selectedVariant # NoVariant
    /\ hasVariants =>
          LET matches == {i \in 1..Len(variants) : variants[i].id = selectedVariantId}
              expected == IF matches = {} THEN variants[1] ELSE variants[Min(matches)]
          IN /\ selectedVariant = expected
             /\ selectedVariant \in Range(variants)
             /\ PriceDisplay = [kind |-> "single", price |-> formatPrice(expected.price)]

C10_Witness ==
    /\ Len(variants) = 2
    /\ selectedVariantId # Null
    /\ \A i \in 1..Len(variants) : variants[i].id # selectedVariantId
    /\ variants[1].price # variants[2].price
    /\ selectedVariant = variants[1]
    /\ PriceDisplay.price = formatPrice(variants[1].price)

\* The references that need a signed url, by the shape the specification gives them.
RemoteRefs == {RefS3A, RefS3B}

\* The last step called onChange and its render put another reference into slot i.
SlotReplaced(i) ==
    /\ lastEvent.op \in {"removeAt", "deleteSettle", "uploadSettle"}
    /\ lastEvent.called
    /\ lastEvent.handed = images
    /\ i <= Len(images)
    /\ i <= Len(lastEvent.before)
    /\ lastEvent.before[i] # images[i]

\* Slot i showed the remote reference it shows now once before, then another
\* reference: the request of the earlier display is still known (orphans).
ReturnedToEarlier(i) ==
    /\ SlotReplaced(i)
    /\ images[i] \in RemoteRefs
    /\ \E o \in orphans : o.slot = i /\ o.src = images[i]

C12_UnmanagedRemovedDirectly ==
    [][\A idx \in 1..Len(images) :
          (RemoveAt(idx) /\ images[idx] \notin ManagedRefs) =>
              /\ dels' = dels
              /\ toasts' = toasts
              /\ lastEvent'.called
              /\ ~lastEvent'.requested
              /\ lastEvent'.handed = WithoutAt(images, idx)
              /\ images' = WithoutAt(images, idx)]_vars

C12_Witness ==
    /\ lastEvent.op = "removeAt"
    /\ lastEvent.url = RefExt
    /\ lastEvent.called
    /\ Len(lastEvent.before) = 2
    /\ lastEvent.before[1] \in ManagedRefs
    /\ images = <<lastEvent.before[1]>>
    /\ dels = <<>>
    /\ toasts = <<>>

ShowsLoading(p) == RenderState(p).kind = "Loading"

ShowsFailed(p) == RenderState(p).kind = "Failed"

CarriesSignedUrl(resp) == ~resp.rejects /\ resp.parses /\ resp.signedUrl # ""

\* C13: the resolver of a remote reference shows Loading from the issue of its
\* signing request until the response; a response carrying signedUrl makes it
\* Ready with exactly that url; any failure (error body, body that does not
\* parse, transport error, image load error) makes it Failed; a Failed instance
\* stays Failed as long as it is mounted with the same reference.
C13_ResolverStates ==
    /\ [](\A i \in 1..Len(previews) :
             previews[i].src \in RemoteRefs =>
                 (ShowsLoading(previews[i]) <=> previews[i].reqs # <<>>))
    /\ [][\A i \in 1..Len(previews) : \A k \in 1..Len(previews[i].reqs) :
             \A resp \in SignResponses(previews[i].reqs[k]) :
                 SignSettle(i, k, resp) =>
                     IF CarriesSignedUrl(resp)
                     THEN RenderState(previews'[i]) = [kind |-> "img", url |-> resp.signedUrl]
                     ELSE ShowsFailed(previews'[i])]_vars
    /\ [][\A i \in 1..Len(previews) : ImgError(i) => ShowsFailed(previews'[i])]_vars
    /\ [][\A i \in 1..Len(previews) :
             (/\ ShowsFailed(previews[i])
              /\ i <= Len(previews')
              /\ previews'[i].src = previews[i].src) => ShowsFailed(previews'[i])]_vars

\* A remote reference whose signed url was set and whose image then failed to
\* load, in a list that an upload has extended.
C13_Witness ==
    \E i \in 1..Len(previews) :
        /\ previews[i].src \in RemoteRefs
        /\ ShowsFailed(previews[i])
        /\ previews[i].setFor = previews[i].src
        /\ previews[i].signedUrl # previews[i].src
        /\ previews[i].reqs = <<>>
        /\ lastEvent.op = "uploadSettle"
        /\ lastEvent.called
        /\ images # lastEvent.before

\* The notifications ts2 are the notifications ts1 with one emitted under key:
\* every other key shows what it showed.
OnlyKeyChanged(ts1, ts2, key) ==
    /\ DOMAIN ts2 = (DOMAIN ts1) \cup {key}
    /\ \A j \in DOMAIN ts1 : j # key => ts2[j] = ts1[j]

\* C14: a deletion of a managed reference emits a loading notification under
\* its key when the request is issued, and when the request is answered exactly
\* one terminal notification under the same key: success iff onChange is then
\* called with the entry removed, error iff onChange is not called and the list
\* is left as it was.
C14_OneTerminalNotificationPerDeletion ==
    /\ [][\A idx \in 1..Len(images) :
             (RemoveAt(idx) /\ images[idx] \in ManagedRefs) =>
                 /\ OnlyKeyChanged(toasts, toasts', idx)
                 /\ toasts'[idx].kind = "loading"
                 /\ dels' = Append(dels, [idx |-> idx, images |-> images])]_vars
    /\ [][\A k \in 1..Len(dels) : \A resp \in DeleteResponses :
             DeleteSettle(k, resp) =>
                 LET key == dels[k].idx
                     removed == WithoutAt(dels[k].images, key) IN
                 /\ OnlyKeyChanged(toasts, toasts', key)
                 /\ toasts'[key].kind \in {"success", "error"}
                 /\ toasts'[key].kind = "success" <=>
                        (lastEvent'.called /\ lastEvent'.handed = removed /\ images' = removed)
                 /\ toasts'[key].kind = "error" <=>
                        (~lastEvent'.called /\ images' = images)]_vars

C14_Witness ==
    /\ DeletionSettled
    /\ lastEvent.outcome = "Rejected"
    /\ lastEvent.idx = 1
    /\ DOMAIN toasts = {1, 2}
    /\ toasts[1].kind = "error"
    /\ toasts[2].kind = "success"
    /\ Len(images) = 1
    /\ images = lastEvent.before

\* The reference a deletion in flight is about.
DeletedRef(d) == d.images[d.idx]

\* C15: two deletions of different references that are in flight at the same
\* time never use the same notification key.
C15_InFlightDeletionsHaveOwnKeys ==
    \A j, k \in 1..Len(dels) :
        DeletedRef(dels[j]) # DeletedRef(dels[k]) => dels[j].idx # dels[k].idx

\* C16: with a delete collaborator that answers or fails every request, every
\* issued deletion completes in the end, with exactly one outcome among Deleted,
\* Rejected and TransportFailed, and the outcome is applied: the list of the
\* call minus the entry is handed over for Deleted, the list stays for the two
\* others; no deletion stays in flight for ever, whatever else interleaves.
C16_EveryDeletionCompletes ==
    /\ (dels # <<>>) ~> (dels = <<>>)
    /\ [][\A k \in 1..Len(dels) : \A resp \in DeleteResponses :
             DeleteSettle(k, resp) =>
                 /\ dels' = WithoutAt(dels, k)
                 /\ lastEvent'.outcome \in {"Deleted", "Rejected", "TransportFailed"}
                 /\ IF lastEvent'.outcome = "Deleted"
                    THEN images' = WithoutAt(dels[k].images, dels[k].idx)
                    ELSE images' = images]_vars

\* Every call has been made and no deletion or upload is in flight any more;
\* the last deletion completed as Deleted, while a signing request of an
\* unmounted instance is still unanswered.
C16_Witness ==
    /\ nCalls = MaxCalls
    /\ ups = <<>>
    /\ dels = <<>>
    /\ DeletionSettled
    /\ lastEvent.outcome = "Deleted"
    /\ images = lastEvent.handed
    /\ \E o \in orphans : ~o.settled

UploadFailed(resp) == resp.rejects \/ AnsweredNon2xx(resp)

\* C17: when the upload request is answered with a non-2xx status or throws,
\* onChange is not called, the list is unchanged and the uploading flag is
\* false again; onFiles with null or with an empty file list issues no request
\* and changes nothing.
C17_FailedUploadKeepsList ==
    /\ [][\A k \in 1..Len(ups) : \A resp \in UploadResponses :
             (UploadSettle(k, resp) /\ UploadFailed(resp)) =>
                 /\ ~lastEvent'.called
                 /\ images' = images
                 /\ previews' = previews
                 /\ uploading' = FALSE]_vars
    /\ [][\A files \in {"null", "0 files"} : OnFiles(files) => UNCHANGED vars]_vars
    /\ [](lastEvent.op = "onFiles" => lastEvent.files = "1 file")

C17_Witness ==
    /\ lastEvent.op = "uploadSettle"
    /\ AnsweredNon2xx(lastEvent.resp)
    /\ ~lastEvent.called
    /\ ~uploading
    /\ ups = <<>>
    /\ Len(images) = 2
    /\ images = lastEvent.before
    /\ images = lastEvent.snapshot

\* C18: the uploading flag is true in exactly the states where at least one
\* upload request is in flight, also when several uploads overlap and are
\* answered in any order.
C18_UploadingIffUploadInFlight ==
    uploading <=> ups # <<>>

====
